---- MODULE Spec2Model ----
(***************************************************************************)
(* Session supervision of src/index.js (the script that starts at line     *)
(* 198): the credential vault (encrypt / decrypt), the in-memory registry  *)
(* `streams`, startUserStream / stopUserStream, the socket and timer        *)
(* callbacks, the /connect-binance and /disconnect-binance handlers and    *)
(* startAllUserStreamsOnBoot.                                              *)
(*                                                                         *)
(* Node runs one callback at a time, so each action is one run of a        *)
(* callback from the point where it is resumed to its next `await`.        *)
(* Storage writes are assumed to succeed; a write that a handler awaits    *)
(* takes effect when the handler is resumed.                               *)
(***************************************************************************)
EXTENDS Integers, Sequences, FiniteSets, TLC

VARIABLES
  ENCRYPTION_KEY, \* the process-wide key, NoKey when absent or of the wrong length
  users,          \* Firestore users/{uid}: the fields this script writes
  operations,     \* Firestore users/{uid}/operations/{orderId}
  writes,         \* operation writes issued by a message handler, not yet committed
  streams,        \* streams[uid] = { ws, renewIntervalId, listenKey }
  ws,             \* every WebSocket created so far
  timers,         \* every setInterval created so far
  calls,          \* activations in flight: the two handlers, boot's startUserStream
  ncalls,         \* HTTP requests accepted so far
  qSnap,          \* the boot query: pending, then the snapshot it returned
  delivered,      \* execution reports handed to the message handler so far
  out,            \* the latest output: an HTTP response or a console line
  vault           \* one use of the vault on its own: encrypt, store, decrypt

db == <<users, operations, writes>>
registry == <<streams, ws, timers>>
sys == <<db, registry, calls, ncalls, qSnap, delivered, out>>
vars == <<ENCRYPTION_KEY, sys, vault>>

-----------------------------------------------------------------------------
(* Bounds *)

MaxCalls == 2
MaxSessions == 2
MaxFrames == 2
MaxSecretLen == 2

-----------------------------------------------------------------------------
(* Values *)

Users == {"u1", "u2"}
\* The users requests are made for; the others have streams from boot only.
Callers == {"u1"}
ApiKeys == {"k1"}
NoKey == 0
Keys == {3}
IVs == {0, 1}
Bytes == {1, 2}
\* A string is a sequence of bytes; the empty string is falsy in JavaScript.
Empty == <<>>
\* A string is a sequence of code units: those of Bytes stand for themselves
\* in UTF-8; Surrogate is a surrogate without its pair, which UTF-8 encodes
\* as the replacement character (Replacement stands for its three bytes).
Surrogate == 8
Replacement == 9
Units == Bytes \cup {Surrogate}
Secrets == UNION {[1..n -> Units] : n \in 1..MaxSecretLen}
NoStream == [ws |-> 0, renewIntervalId |-> 0, listenKey |-> 0]
SampleSecret == <<1, 2>>
NoDoc == [binanceApiKey |-> "", binanceApiSecret |-> Empty,
          binanceConnected |-> FALSE, lastListenKey |-> 0]
NoCall == [id |-> 0, op |-> "", uid |-> "", apiKey |-> "", apiSecret |-> Empty,
           apiSecretPlain |-> Empty, pc |-> "", listenKey |-> 0, s |-> NoStream,
           err |-> "", overlap |-> FALSE, after |-> "", wasConnected |-> FALSE]
NoOutput == [kind |-> "", status |-> 0, op |-> "", uid |-> "", apiKey |-> "",
             apiSecret |-> Empty, listenKey |-> 0, s |-> NoStream, err |-> "",
             overlap |-> FALSE, after |-> "", line |-> "", id |-> 0]
NoOperations == [p \in {} |-> 0]
IdleVault ==
  [pc |-> "idle", plainText |-> Empty, payload |-> Empty, at |-> 0,
   outcome |-> "", result |-> Empty]


-----------------------------------------------------------------------------
(* Credential vault: encrypt / decrypt (AES-256-GCM).                      *)
(* The cipher is modelled by what the code relies on: the key stream       *)
(* depends on key and iv, deciphering inverts ciphering under the same key *)
(* and iv, and the tag authenticates iv and ciphertext under the key.      *)

RECURSIVE Digest(_)
Digest(bytes) ==
  IF bytes = <<>> THEN 0
  ELSE Len(bytes) * bytes[Len(bytes)] + Digest(SubSeq(bytes, 1, Len(bytes) - 1))

\* cipher.update(plainText) + cipher.final()
\* Buffer of a string in "utf8"
Utf8(text) ==
  [i \in 1..Len(text) |-> IF text[i] = Surrogate THEN Replacement ELSE text[i]]

\* buffer.toString("utf8"): each encoded character is read back
FromUtf8(buffer) == [i \in 1..Len(buffer) |-> buffer[i]]

\* A deciphering that leaves the iv out of the key stream.
DecipherNoIv(key, iv, encrypted) ==
  [i \in 1..Len(encrypted) |-> encrypted[i] - key - i]

CipherUpdate(key, iv, text) == [i \in 1..Len(text) |-> text[i] + key + iv + i]

\* decipher.update(encrypted) + decipher.final(), once the tag has verified
DecipherUpdate(key, iv, encrypted) ==
  [i \in 1..Len(encrypted) |-> encrypted[i] - key - iv - i]

\* cipher.getAuthTag()
AuthTag(key, iv, encrypted) == key + 2 * iv + Digest(encrypted)

\* The payload is iv, tag and ciphertext concatenated (then base64).
encrypt(plainText, iv) ==
  IF ENCRYPTION_KEY = NoKey THEN plainText
  ELSE LET encrypted == CipherUpdate(ENCRYPTION_KEY, iv, Utf8(plainText))
       IN  <<iv, AuthTag(ENCRYPTION_KEY, iv, encrypted)>> \o encrypted

\* The try block of decrypt: slices iv, tag and ciphertext out of the payload
\* and deciphers; decipher.final() throws when the tag does not verify, and
\* setAuthTag throws on a payload too short to hold a tag.
Decipher(payload) ==
  IF Len(payload) < 2 THEN [threw |-> TRUE, dec |-> Empty]
  ELSE LET iv == payload[1]
           tag == payload[2]
           encrypted == SubSeq(payload, 3, Len(payload))
       IN  IF tag # AuthTag(ENCRYPTION_KEY, iv, encrypted)
           THEN [threw |-> TRUE, dec |-> Empty]
           ELSE [threw |-> FALSE,
                 dec |-> FromUtf8(DecipherUpdate(ENCRYPTION_KEY, iv,
                                                 encrypted))]

\* decrypt: identity without a key; with one, the catch returns the payload
\* itself when deciphering throws.
decrypt(payload) ==
  IF ENCRYPTION_KEY = NoKey THEN payload
  ELSE IF Decipher(payload).threw THEN payload
  ELSE Decipher(payload).dec

-----------------------------------------------------------------------------
(* Session registry: stopUserStream, and the synchronous head of           *)
(* startUserStream                                                         *)

\* stopUserStream(uid) for every uid of S, its effect on the sockets w:
\* s.ws.close() is called only when readyState is OPEN.
WsAfterStop(w, S) ==
  [k \in DOMAIN w |->
     IF /\ \E u \in S : streams[u] # NoStream /\ streams[u].ws = k
        /\ w[k].readyState = "OPEN"
     THEN [w[k] EXCEPT !.readyState = "CLOSING"]
     ELSE w[k]]

\* A stop that leaves the renewal timer running.
TimersLeftRunning(S) == timers

\* clearInterval(s.renewIntervalId)
TimersAfterStop(S) ==
  [k \in DOMAIN timers |->
     IF \E u \in S : streams[u] # NoStream /\ streams[u].renewIntervalId = k
     THEN [timers[k] EXCEPT !.active = FALSE]
     ELSE timers[k]]

\* A stop that leaves the registry slot in place.
StreamsKept(S) == streams

\* A stop that empties the whole registry.
StreamsCleared(S) == [u \in Users |-> NoStream]

\* delete streams[uid]
StreamsAfterStop(S) == [u \in Users |-> IF u \in S THEN NoStream ELSE streams[u]]

stopUserStream(w, S) ==
  /\ ws' = WsAfterStop(w, S)
  /\ timers' = TimersAfterStop(S)
  /\ streams' = StreamsAfterStop(S)

-----------------------------------------------------------------------------
(* Bookkeeping of the activations *)

\* res.status(status).json(...) of the handler activation c
Response(status, c) ==
  [NoOutput EXCEPT !.kind = "response", !.status = status, !.op = c.op,
                   !.uid = c.uid, !.apiKey = c.apiKey, !.apiSecret = c.apiSecret,
                   !.s = c.s, !.err = c.err, !.overlap = c.overlap,
                   !.after = c.after]

\* console.log / console.warn / console.error
Log(line, id, uid) ==
  [NoOutput EXCEPT !.kind = "log", !.line = line, !.id = id, !.uid = uid]

\* What the properties below need to know of an activation's history: whether
\* it overlapped another one for its user, which response preceded it, and
\* the user's flag when it arrived.
\* Another activation for the same user is in flight (the boot query, while
\* pending, may start one for any user).
Overlapping(uid) == ~qSnap.done \/ \E c \in calls : c.uid = uid

MarkOverlap(S) ==
  {IF c.uid \in S THEN [c EXCEPT !.overlap = TRUE] ELSE c : c \in calls}

\* The operation whose response to this user is the latest output, when that
\* operation ran alone for the user.
After(uid) ==
  IF out.kind = "response" /\ out.uid = uid /\ out.status = 200 /\ ~out.overlap
  THEN out.op
  ELSE ""

-----------------------------------------------------------------------------
(* POST /connect-binance *)

\* A validation that does not look at the secret.
SecretUnchecked(uid, apiKey, apiSecret) == uid # "" /\ apiKey # ""

\* if (!uid || !apiKey || !apiSecret)
ValidConnect(uid, apiKey, apiSecret) ==
  uid # "" /\ apiKey # "" /\ apiSecret # Empty

\* The request arrives: validation, then the credential write is issued.
ConnectRequest(uid, apiKey, apiSecret) ==
  LET c == [NoCall EXCEPT !.id = ncalls + 1, !.op = "connect", !.uid = uid,
                          !.apiKey = apiKey, !.apiSecret = apiSecret]
  IN
  /\ ncalls < MaxCalls
  /\ ncalls' = ncalls + 1
  /\ IF ValidConnect(uid, apiKey, apiSecret)
     THEN /\ calls' = MarkOverlap({uid}) \cup
                        {[c EXCEPT !.pc = "save", !.overlap = Overlapping(uid),
                             !.after = After(uid),
                             !.wasConnected = users[uid].binanceConnected]}
          /\ UNCHANGED out
     ELSE /\ out' = Response(400, c)
          /\ UNCHANGED calls
  /\ UNCHANGED <<ENCRYPTION_KEY, db, registry, qSnap, delivered, vault>>

\* crypto.randomBytes(12): a nonce the process has not drawn before.
Nonce(n) == n

\* The credential write has committed; the handler computes secretPlain and
\* enters startUserStream, which stops a registered stream and requests a
\* listenKey.
ConnectSaved(c) ==
  /\ c \in calls /\ c.op = "connect" /\ c.pc = "save"
  /\ users' = [users EXCEPT ![c.uid] =
                 [@ EXCEPT !.binanceApiKey = c.apiKey,
                           !.binanceApiSecret = encrypt(c.apiSecret, Nonce(c.id)),
                           !.binanceConnected = TRUE]]
  /\ calls' = (calls \ {c}) \cup
                {[c EXCEPT !.pc = "token",
                    !.apiSecretPlain =
                       decrypt(encrypt(c.apiSecret, Nonce(c.id + 1)))]}
  /\ stopUserStream(ws, {c.uid})
  /\ UNCHANGED <<ENCRYPTION_KEY, operations, writes, ncalls, qSnap, delivered,
                 out, vault>>

-----------------------------------------------------------------------------
(* startUserStream after the listenKey request *)

\* The venue answered with a listenKey: socket, handlers, renewal timer,
\* registry entry; then the lastListenKey write is issued.
TokenIssued(c) ==
  /\ c \in calls /\ c.pc = "token"
  /\ Len(ws) < MaxSessions
  /\ LET k == Len(ws) + 1
     IN  /\ ws' = Append(ws, [uid |-> c.uid, readyState |-> "CONNECTING"])
         /\ timers' = Append(timers, [uid |-> c.uid, active |-> TRUE,
                                      listenKey |-> k, apiKey |-> c.apiKey])
         /\ streams' = [streams EXCEPT ![c.uid] =
                          [ws |-> k, renewIntervalId |-> k, listenKey |-> k]]
         /\ calls' = (calls \ {c}) \cup {[c EXCEPT !.pc = "record", !.listenKey = k]}
  /\ UNCHANGED <<ENCRYPTION_KEY, db, ncalls, qSnap, delivered, out, vault>>

\* The request failed, or its answer held no listenKey: the catch logs and
\* startUserStream returns normally; the connect handler answers success.
TokenFailed(c) ==
  /\ c \in calls /\ c.pc = "token"
  /\ \E e \in {"request failed", "no listenKey"} :
       out' = IF c.op = "connect" THEN Response(200, [c EXCEPT !.err = e])
              ELSE Log("Error iniciando userStream", 0, c.uid)
  /\ calls' = calls \ {c}
  /\ UNCHANGED <<ENCRYPTION_KEY, db, registry, ncalls, qSnap, delivered, vault>>

\* A token record that also marks the user connected.
TokenDocConnected(doc, listenKey) ==
  [doc EXCEPT !.lastListenKey = listenKey, !.binanceConnected = TRUE]

\* set({lastListenKey, lastListenKeyAt}, {merge: true})
TokenDoc(doc, listenKey) == [doc EXCEPT !.lastListenKey = listenKey]

\* The lastListenKey write has committed; startUserStream returns.
TokenRecorded(c) ==
  /\ c \in calls /\ c.pc = "record"
  /\ users' = [users EXCEPT ![c.uid] = TokenDoc(@, c.listenKey)]
  /\ out' = IF c.op = "connect" THEN Response(200, c) ELSE out
  /\ calls' = calls \ {c}
  /\ UNCHANGED <<ENCRYPTION_KEY, operations, writes, registry, ncalls, qSnap,
                 delivered, vault>>

-----------------------------------------------------------------------------
(* POST /disconnect-binance *)

\* The request arrives: validation, stopUserStream, then the flag write is
\* issued.
DisconnectRequest(uid) ==
  LET c == [NoCall EXCEPT !.id = ncalls + 1, !.op = "disconnect", !.uid = uid]
  IN
  /\ ncalls < MaxCalls
  /\ ncalls' = ncalls + 1
  /\ IF uid # ""
     THEN /\ calls' = MarkOverlap({uid}) \cup
                        {[c EXCEPT !.pc = "save", !.s = streams[uid],
                                   !.overlap = Overlapping(uid),
                                   !.after = After(uid)]}
          /\ stopUserStream(ws, {uid})
          /\ UNCHANGED out
     ELSE /\ out' = Response(400, c)
          /\ UNCHANGED <<calls, registry>>
  /\ UNCHANGED <<ENCRYPTION_KEY, db, qSnap, delivered, vault>>

\* The flag write has committed; the handler answers success.
DisconnectSaved(c) ==
  /\ c \in calls /\ c.op = "disconnect" /\ c.pc = "save"
  /\ users' = [users EXCEPT ![c.uid].binanceConnected = FALSE]
  /\ out' = Response(200, c)
  /\ calls' = calls \ {c}
  /\ UNCHANGED <<ENCRYPTION_KEY, operations, writes, registry, ncalls, qSnap,
                 delivered, vault>>

-----------------------------------------------------------------------------
(* startAllUserStreamsOnBoot *)

\* A key check that lets every document through.
KeysUnchecked(doc) == TRUE

\* if (!apiKey || !apiSecretStored) return
HasKeys(doc) == doc.binanceApiKey # "" /\ doc.binanceApiSecret # Empty

\* The query answers: for every connected user with keys, decrypt and call
\* startUserStream without awaiting it; each runs to its listenKey request.
BootSnapshot ==
  /\ ~qSnap.done
  /\ LET connected == {u \in Users : users[u].binanceConnected}
         started == {u \in connected : HasKeys(users[u])}
     IN  /\ qSnap' = [done |-> TRUE, docs |-> [u \in connected |-> users[u]]]
         /\ calls' = MarkOverlap(started) \cup
              {[NoCall EXCEPT !.op = "boot", !.uid = u, !.pc = "token",
                  !.apiKey = users[u].binanceApiKey,
                  !.apiSecret = users[u].binanceApiSecret,
                  !.apiSecretPlain = decrypt(users[u].binanceApiSecret),
                  !.overlap = \E c \in calls : c.uid = u] : u \in started}
         /\ stopUserStream(ws, started)
  /\ UNCHANGED <<ENCRYPTION_KEY, db, ncalls, delivered, out, vault>>

-----------------------------------------------------------------------------
(* Socket and timer callbacks *)

\* ws.on("open")
WsOpen(k) ==
  /\ k \in DOMAIN ws /\ ws[k].readyState = "CONNECTING"
  /\ ws' = [ws EXCEPT ![k].readyState = "OPEN"]
  /\ UNCHANGED <<ENCRYPTION_KEY, db, streams, timers, calls, ncalls, qSnap,
                 delivered, out, vault>>

\* The socket closes: the handshake fails (CONNECTING), the peer or the network
\* closes it (OPEN), or the close this process asked for completes (CLOSING).
\* ws.on("close") calls stopUserStream(uid).
WsClose(k) ==
  /\ k \in DOMAIN ws /\ ws[k].readyState # "CLOSED"
  /\ stopUserStream([ws EXCEPT ![k].readyState = "CLOSED"], {ws[k].uid})
  /\ out' = [Log("WS cerrado", k, ws[k].uid) EXCEPT
              !.status = IF ws[k].readyState = "CLOSING" THEN 1000 ELSE 1006,
              !.s = streams[ws[k].uid]]
  /\ UNCHANGED <<ENCRYPTION_KEY, db, calls, ncalls, qSnap, delivered, vault>>

\* ws.on("error"): the error is logged.
WsError(k) ==
  /\ k \in DOMAIN ws /\ ws[k].readyState \in {"CONNECTING", "OPEN"}
  /\ out' = Log("Error WS", k, ws[k].uid)
  /\ UNCHANGED <<ENCRYPTION_KEY, db, registry, calls, ncalls, qSnap, delivered,
                 vault>>

\* A tick that gives up renewing once a renewal has failed.
TimersStoppedOnError(k, line) ==
  IF line = "Error renovando listenKey"
  THEN [timers EXCEPT ![k].active = FALSE]
  ELSE timers

\* The callback neither clears its interval nor touches the registry.
TimersAfterTick(k, line) == timers

\* The renewal interval fires: PUT with the listenKey and apiKey the stream was
\* started with; the outcome is logged.
RenewTick(k) ==
  /\ k \in DOMAIN timers /\ timers[k].active
  /\ \E line \in {"ListenKey renovado", "Error renovando listenKey"} :
       /\ out' = [Log(line, k, timers[k].uid) EXCEPT
                    !.apiKey = timers[k].apiKey,
                    !.listenKey = timers[k].listenKey]
       /\ timers' = TimersAfterTick(k, line)
  /\ UNCHANGED <<ENCRYPTION_KEY, db, streams, ws, calls, ncalls, qSnap,
                 delivered, vault>>

-----------------------------------------------------------------------------
(* ws.on("message"): the frame handler and the writes it issues.           *)
(* A frame is the text the venue sent: either text that JSON.parse rejects  *)
(* or an object, given by the keys it has.  Decimal text is a sequence of   *)
(* digits with at most one Dot; numbers are kept in units of 1/Scale.       *)

Dot == 10
Scale == 10

Fill ==
  [e |-> "executionReport", i |-> 7, S |-> "BUY", s |-> <<"BTC", "USDT">>,
   l |-> <<0, Dot, 5>>, Z |-> <<1, 5, 0, 0, 0>>, T |-> 5]
Sold ==
  [e |-> "executionReport", i |-> 7, S |-> "SELL", s |-> <<"BTC", "USDT">>,
   q |-> <<0>>, z |-> <<1, 5, 0, 0, 0>>]
Bare == [e |-> "executionReport", l |-> <<2>>]
Account == [e |-> "outboundAccountPosition"]

Messages ==
  {[malformed |-> TRUE, data |-> [e |-> ""]]} \cup
  {[malformed |-> FALSE, data |-> d] : d \in {Fill, Sold, Bare, Account}}

\* Date.now() at the frames
Times == {8, 9}

Has(data, key) == key \in DOMAIN data
\* data.key || ""  for a text field
Text(data, key) == IF Has(data, key) THEN data[key] ELSE <<>>

RECURSIVE Decimal(_)
Decimal(digits) ==
  IF digits = <<>> THEN 0
  ELSE 10 * Decimal(SubSeq(digits, 1, Len(digits) - 1)) + digits[Len(digits)]

DotAt(text) ==
  IF \E j \in DOMAIN text : text[j] = Dot
  THEN CHOOSE j \in DOMAIN text : text[j] = Dot
  ELSE Len(text) + 1

parseFloat(text) ==
  Scale * Decimal(SubSeq(text, 1, DotAt(text) - 1))
    + (IF DotAt(text) < Len(text) THEN text[DotAt(text) + 1] ELSE 0)

\* data.i?.toString?.() || `${Date.now()}`
OrderId(data, now) == IF Has(data, "i") THEN ToString(data.i) ELSE ToString(now)

\* (data.s || "").replace(/USDT$/i, "")
StripQuote(s) ==
  IF s # <<>> /\ s[Len(s)] \in {"USDT", "usdt"}
  THEN SubSeq(s, 1, Len(s) - 1)
  ELSE s

executedQty(data) ==
  parseFloat(IF Text(data, "l") # <<>> THEN data.l
             ELSE IF Text(data, "q") # <<>> THEN data.q ELSE <<0>>)

cumQuote(data) ==
  parseFloat(IF Text(data, "Z") # <<>> THEN data.Z
             ELSE IF Text(data, "z") # <<>> THEN data.z ELSE <<0>>)

\* A quotient that divides by the quantity as it is.
UnguardedRate(quote, qty) == [num |-> quote, den |-> qty]

\* cumQuote / (executedQty || 1), as the quotient num / den
exchange_rate(quote, qty) ==
  [num |-> quote, den |-> IF qty = 0 THEN Scale ELSE qty]

operationData(data, now) ==
  [order_id |-> OrderId(data, now),
   exchange |-> "Binance",
   operation_type |-> IF Has(data, "S") /\ data.S = "SELL" THEN "Venta"
                      ELSE "Compra",
   crypto |-> StripQuote(Text(data, "s")),
   fiat |-> "USDT",
   crypto_amount |-> executedQty(data),
   fiat_amount |-> cumQuote(data),
   exchange_rate |-> exchange_rate(cumQuote(data), executedQty(data)),
   fee |-> 0,
   profit |-> 0,
   raw |-> data,
   timestamp |-> IF Has(data, "T") /\ data.T # 0 THEN data.T ELSE now]

\* set(data, {merge: true}) on a map field: the keys written replace the
\* stored ones, the other stored keys stay.
MergeMap(old, new) ==
  [key \in DOMAIN old \cup DOMAIN new |->
     IF key \in DOMAIN new THEN new[key] ELSE old[key]]

\* set(operationData, {merge: true}) on users/{uid}/operations/{orderId}
SetMerge(ops, w) ==
  LET p == <<w.uid, w.orderId>> IN
  [q \in DOMAIN ops \cup {p} |->
     IF q # p THEN ops[q]
     ELSE IF p \in DOMAIN ops
          THEN [w.data EXCEPT !.raw = MergeMap(ops[p].raw, w.data.raw)]
          ELSE w.data]

\* The write for the frame: users/{uid}/operations/{orderId}
WriteOf(k, msg, now) ==
  [n |-> Len(delivered) + 1, uid |-> ws[k].uid,
   orderId |-> OrderId(msg.data, now),
   data |-> operationData(msg.data, now)]

\* A handler that writes whatever text it is given.
IssuedUnparsed(k, msg, now) ==
  IF msg.malformed \/ msg.data.e = "executionReport"
  THEN {WriteOf(k, msg, now)}
  ELSE {}

\* A handler that writes every event, whatever its type.
IssuedAnyEvent(k, msg, now) ==
  IF msg.malformed THEN {} ELSE {WriteOf(k, msg, now)}

\* The writes the handler issues: none when JSON.parse throws, none for an
\* event that is not an executionReport.
Issued(k, msg, now) ==
  IF msg.malformed THEN {}
  ELSE IF msg.data.e = "executionReport" THEN {WriteOf(k, msg, now)}
  ELSE {}

\* A frame arrives on socket k: the handler runs up to the write it awaits.
WsMessage(k, msg, now) ==
  /\ k \in DOMAIN ws /\ ws[k].readyState \in {"OPEN", "CLOSING"}
  /\ Len(delivered) < MaxFrames
  /\ delivered # <<>> => now >= delivered[Len(delivered)].now
  /\ delivered' = Append(delivered,
                         [k |-> k, uid |-> ws[k].uid, msg |-> msg, now |-> now])
  /\ writes' = writes \cup Issued(k, msg, now)
  /\ out' = IF msg.malformed
            THEN Log("Error procesando mensaje WS", k, ws[k].uid)
            ELSE out
  /\ UNCHANGED <<ENCRYPTION_KEY, users, operations, registry, calls, ncalls,
                 qSnap, vault>>

\* Storage applies a write the handler issued, and the handler is resumed.
\* The handlers of successive frames do not wait for one another, so their
\* writes are applied in the order storage takes them.
WriteCommit(w) ==
  /\ w \in writes
  /\ writes' = writes \ {w}
  /\ operations' = SetMerge(operations, w)
  /\ out' = [Log("Orden guardada", w.n, w.uid) EXCEPT !.op = w.orderId]
  /\ UNCHANGED <<ENCRYPTION_KEY, users, registry, calls, ncalls, qSnap,
                 delivered, vault>>

-----------------------------------------------------------------------------
(* The process after module load: an empty registry, the boot query issued, *)
(* and the storage a previous run may have left.                           *)

StoredSecrets ==
  IF ENCRYPTION_KEY = NoKey THEN {Empty, SampleSecret}
  ELSE {Empty, encrypt(SampleSecret, 0),
        [encrypt(SampleSecret, 0) EXCEPT ![3] = @ + 1]}

StoredDocs ==
  {NoDoc} \cup
  {[NoDoc EXCEPT !.binanceApiKey = IF p = Empty THEN "" ELSE "k1",
                 !.binanceApiSecret = p, !.binanceConnected = TRUE] :
     p \in StoredSecrets}

Init ==
  /\ ENCRYPTION_KEY \in Keys
  /\ users \in [Users -> StoredDocs]
  /\ \A u \in Users \ Callers :
       users[u] = NoDoc \/ ~Decipher(users[u].binanceApiSecret).threw
  /\ operations = NoOperations
  /\ writes = {}
  /\ streams = [u \in Users |-> NoStream]
  /\ ws = <<>>
  /\ timers = <<>>
  /\ calls = {}
  /\ ncalls = 0
  /\ qSnap = [done |-> FALSE, docs |-> <<>>]
  /\ delivered = <<>>
  /\ out = NoOutput
  /\ vault = IdleVault

Next ==
  \/ \E uid \in Callers \cup {""}, apiKey \in ApiKeys \cup {""},
        apiSecret \in {SampleSecret, Empty} :
       ConnectRequest(uid, apiKey, apiSecret)
  \/ \E c \in calls : ConnectSaved(c)
  \/ \E c \in calls : TokenIssued(c)
  \/ \E c \in calls : TokenFailed(c)
  \/ \E c \in calls : TokenRecorded(c)
  \/ \E uid \in Callers \cup {""} : DisconnectRequest(uid)
  \/ \E c \in calls : DisconnectSaved(c)
  \/ BootSnapshot
  \/ \E k \in DOMAIN ws : WsOpen(k)
  \/ \E k \in DOMAIN ws : WsClose(k)
  \/ \E k \in DOMAIN ws : WsError(k)
  \/ \E k \in DOMAIN timers : RenewTick(k)

Spec == Init /\ [][Next]_vars

\* The sessions recovered at boot, and the frames they receive.
StreamNext ==
  \/ BootSnapshot
  \/ \E c \in calls : TokenIssued(c)
  \/ \E c \in calls : TokenFailed(c)
  \/ \E c \in calls : TokenRecorded(c)
  \/ \E k \in DOMAIN ws : WsOpen(k)
  \/ \E k \in DOMAIN ws : WsClose(k)
  \/ \E k \in DOMAIN ws, msg \in Messages, now \in Times : WsMessage(k, msg, now)
  \/ \E w \in writes : WriteCommit(w)

StreamSpec == Init /\ [][StreamNext]_vars

\* Requests, recovery, sockets, timers and frames together, for a process
\* that finds in storage the documents of the users who make no request.
\* The venue sends an execution report on any socket, at a moment when no
\* activation is under way.
SystemInit ==
  /\ Init
  /\ \A u \in Users : users[u] = NoDoc <=> u \in Callers

SystemNext ==
  \/ Next
  \/ /\ calls = {}
     /\ \E k \in DOMAIN ws, now \in {t \in Times : \A s \in Times : t <= s} :
          WsMessage(k, [malformed |-> FALSE, data |-> Fill], now)
  \/ \E w \in writes : WriteCommit(w)

SystemSpec == SystemInit /\ [][SystemNext]_vars

-----------------------------------------------------------------------------
(* The vault on its own: a secret is sealed, the stored payload may be      *)
(* altered, and the payload is opened.                                      *)

VaultEncrypt(plainText, iv) ==
  /\ vault.pc = "idle"
  /\ vault' = [IdleVault EXCEPT !.pc = "sealed", !.plainText = plainText,
                                !.payload = encrypt(plainText, iv)]
  /\ UNCHANGED <<ENCRYPTION_KEY, sys>>

\* One position of the stored payload is altered: the iv (1), the tag (2) or
\* the ciphertext (from 3 on).
VaultTamper(j, d) ==
  /\ vault.pc = "sealed" /\ vault.at = 0
  /\ j \in DOMAIN vault.payload
  /\ vault' = [vault EXCEPT !.payload[j] = @ + d, !.at = j]
  /\ UNCHANGED <<ENCRYPTION_KEY, sys>>

\* decrypt(payload): every path of the function returns, the catch block
\* included.
VaultDecrypt ==
  /\ vault.pc = "sealed"
  /\ vault' = [vault EXCEPT !.pc = "opened", !.outcome = "returned",
                            !.result = decrypt(vault.payload)]
  /\ UNCHANGED <<ENCRYPTION_KEY, sys>>

VaultIdle ==
  /\ vault.pc = "opened"
  /\ vault' = IdleVault
  /\ UNCHANGED <<ENCRYPTION_KEY, sys>>

VaultInit ==
  /\ ENCRYPTION_KEY \in {NoKey} \cup Keys
  /\ users = [u \in Users |-> NoDoc]
  /\ operations = NoOperations
  /\ writes = {}
  /\ streams = [u \in Users |-> NoStream]
  /\ ws = <<>>
  /\ timers = <<>>
  /\ calls = {}
  /\ ncalls = 0
  /\ qSnap = [done |-> FALSE, docs |-> <<>>]
  /\ delivered = <<>>
  /\ out = NoOutput
  /\ vault = IdleVault

VaultNext ==
  \/ \E plainText \in Secrets, iv \in IVs : VaultEncrypt(plainText, iv)
  \/ \E j \in 1..(MaxSecretLen + 2), d \in {-1, 1} : VaultTamper(j, d)
  \/ VaultDecrypt
  \/ VaultIdle

VaultSpec == VaultInit /\ [][VaultNext]_vars

-----------------------------------------------------------------------------
(* Properties of the session lifecycle *)

LiveSocket(k) == ws[k].readyState \in {"CONNECTING", "OPEN"}
LiveSockets(u) == {k \in DOMAIN ws : ws[k].uid = u /\ LiveSocket(k)}
LiveTimers(u) == {k \in DOMAIN timers : timers[k].uid = u /\ timers[k].active}
LiveSessions(u) == LiveSockets(u) \cup LiveTimers(u)

\* The activation c returns in this step.
Returns(c) == c \in calls /\ calls' = calls \ {c}
\* The activation c is accepted in this step.
Arrives(c) == c \notin calls /\ c \in calls'

\* C1: every user has at most one live Session at any time, a live Session
\* being a socket of the user that is connecting or open, or a renewal timer
\* of the user that is not cancelled.
C1_AtMostOneLiveSession == \A u \in Users : Cardinality(LiveSessions(u)) <= 1

\* C2: when a connect that directly followed a disconnect of the same user
\* (no other activation for the user in between or alongside) returns, the
\* user has at most one connecting or open socket, and no renewal timer
\* other than the registered one is still running.
C2_DisconnectThenConnect ==
  [][\A c \in calls :
       (Returns(c) /\ c.op = "connect" /\ c.after = "disconnect" /\ ~c.overlap)
       => /\ Cardinality(LiveSockets(c.uid)') <= 1
          /\ LiveTimers(c.uid)' \subseteq {streams'[c.uid].renewIntervalId}]_vars

\* The latest output is the close of the registered socket of user u, not
\* asked for by this process.
Dropped(u) ==
  /\ out.kind = "log" /\ out.line = "WS cerrado" /\ out.uid = u
  /\ out.status = 1006 /\ out.s.ws = out.id

\* C3: after the registered socket of an enabled user closed unexpectedly, the
\* user is started again: while the user has no registered Session, a start
\* for the user is under way.
C3_RestartAfterUnexpectedClose ==
  \A u \in Users :
    (Dropped(u) /\ users[u].binanceConnected /\ streams[u] = NoStream)
    => (~qSnap.done \/ \E c \in calls : c.uid = u /\ c.op # "disconnect")

\* C4: when the venue rejects the token of a connect (alone for its user),
\* the caller gets an error, no Session is registered for the user, and the
\* user's flag is true only if it was before the call.
C4_RejectedConnectFails ==
  [][\A c \in calls :
       (Returns(c) /\ c.op = "connect" /\ c.pc = "token" /\ ~c.overlap)
       => /\ out'.kind = "response" /\ out'.status # 200
          /\ streams'[c.uid] = NoStream
          /\ (users'[c.uid].binanceConnected => c.wasConnected)]_vars

\* C5: when a disconnect (alone for its user) returns success, none of the
\* user's sockets is connecting or open, none of the user's renewal timers
\* runs, and the user's registry slot is free.
C5_DisconnectReleasesAll ==
  [][\A c \in calls :
       (Returns(c) /\ c.op = "disconnect" /\ ~c.overlap)
       => LiveSessions(c.uid)' = {} /\ streams'[c.uid] = NoStream]_vars

\* The stored credential does not unseal under the configured key.
Corrupt(doc) ==
  /\ HasKeys(doc) /\ ENCRYPTION_KEY # NoKey
  /\ Decipher(doc.binanceApiSecret).threw

BootStarted(u) == \E c \in calls : c.op = "boot" /\ c.uid = u

\* C6: when the boot query answers, a start is launched for every connected
\* user whose stored credential is intact, and none for a user whose stored
\* credential is corrupt.
C6_RecoveryIsolatesCorrupt ==
  [][(~qSnap.done /\ qSnap'.done)
     => \A u \in DOMAIN qSnap'.docs :
          /\ (HasKeys(qSnap'.docs[u]) /\ ~Corrupt(qSnap'.docs[u]))
               => BootStarted(u)'
          /\ (Corrupt(qSnap'.docs[u]) => ~BootStarted(u)')]_vars

MissingField(r) == r.uid = "" \/ r.apiKey = "" \/ r.apiSecret = Empty

\* C9: no connect request with a missing uid, apiKey or apiSecret is accepted;
\* the request is answered at once with an error, and storage, registry,
\* sockets and timers stay as they are.
C9_InvalidConnectRejected ==
  [][/\ \A c \in calls' : (Arrives(c) /\ c.op = "connect") => ~MissingField(c)
     /\ (out' # out /\ out'.kind = "response" /\ out'.op = "connect"
           /\ MissingField(out'))
        => /\ out'.status = 400
           /\ UNCHANGED <<db, registry, calls, qSnap>>]_vars

\* A connect request that lacks only the secret has been answered.
C9_MissingSecretRejected ==
  /\ out.kind = "response" /\ out.op = "connect" /\ out.status = 400
  /\ out.uid # "" /\ out.apiKey # "" /\ out.apiSecret = Empty

-----------------------------------------------------------------------------
(* Properties of the frame handler *)

ExecutionReport(d) == ~d.msg.malformed /\ d.msg.data.e = "executionReport"

\* Two execution reports for one order id were received one after the other on
\* one socket, and every write they caused has been applied.
TwoReportsPersisted ==
  /\ Len(delivered) = 2 /\ writes = {}
  /\ ExecutionReport(delivered[1]) /\ ExecutionReport(delivered[2])
  /\ delivered[1].k = delivered[2].k
  /\ OrderId(delivered[1].msg.data, delivered[1].now)
       = OrderId(delivered[2].msg.data, delivered[2].now)

\* C7: after two execution reports for one order id, received in sequence on
\* a user's socket, have been persisted, the record stored under the user and
\* the order id is the one derived from the second report.
C7_SecondReportStored ==
  TwoReportsPersisted
  => LET d == delivered[2]
         p == <<d.uid, OrderId(d.msg.data, d.now)>>
     IN /\ p \in DOMAIN operations
        /\ operations[p] = operationData(d.msg.data, d.now)

-----------------------------------------------------------------------------
(* Properties of the vault *)

\* C10: with a key configured, opening a payload whose tag or ciphertext was
\* altered ends in an error: decrypt does not return, and what the caller
\* holds is not the stored payload.
C10_TamperedPayloadRejected ==
  (vault.pc = "opened" /\ vault.at >= 2 /\ ENCRYPTION_KEY # NoKey)
  => (vault.outcome # "returned" /\ vault.result # vault.payload)

\* The rate of a record is its quote amount over its base amount, the base
\* counting as 1 when it is 0.
RateOf(r) ==
  /\ r.exchange_rate.den # 0
  /\ IF r.crypto_amount # 0
     THEN r.exchange_rate.num * r.crypto_amount
            = r.fiat_amount * r.exchange_rate.den
     ELSE r.exchange_rate.num * Scale = r.fiat_amount * r.exchange_rate.den

\* C11: every record written for an execution report has rate = quote / base
\* when the executed quantity is not 0 and rate = quote when it is 0; so
\* quantity 0.5 with quote 15000 gives 30000, and quantity 0 gives 15000.
C11_NormalizedRate ==
  /\ \A w \in writes :
       /\ RateOf(w.data)
       /\ (w.data.fiat_amount = 15000 * Scale /\ w.data.crypto_amount * 2 = Scale)
            => w.data.exchange_rate.num = 30000 * w.data.exchange_rate.den
       /\ (w.data.fiat_amount = 15000 * Scale /\ w.data.crypto_amount = 0)
            => w.data.exchange_rate.num = 15000 * w.data.exchange_rate.den
  /\ \A p \in DOMAIN operations : RateOf(operations[p])

\* Both a report with quantity 0.5 and one with quantity 0 have been written.
C11_BothRatesWritten ==
  /\ \E w \in writes : w.data.crypto_amount * 2 = Scale
  /\ \E w \in writes :
       w.data.crypto_amount = 0 /\ w.data.fiat_amount = 15000 * Scale

\* A payload was sealed under a configured key and opened as it was stored.
RoundTrip ==
  vault.pc = "opened" /\ vault.at = 0 /\ ENCRYPTION_KEY # NoKey

WellFormed(text) == \A i \in DOMAIN text : text[i] # Surrogate

\* C12: with a key configured, decrypt(encrypt(s)) = s for every non-empty
\* string s.
C12_RoundTripAnyString == RoundTrip => vault.result = vault.plainText

\* C12, amended: with a key configured, decrypt(encrypt(s)) = s for every
\* non-empty string s that has no unpaired surrogate.
C12_RoundTripWellFormed ==
  (RoundTrip /\ WellFormed(vault.plainText)) => vault.result = vault.plainText

\* A well-formed secret of full length has been sealed and opened.
C12_SecretRecovered ==
  /\ RoundTrip /\ WellFormed(vault.plainText)
  /\ Len(vault.plainText) = MaxSecretLen
  /\ vault.payload # vault.plainText
  /\ vault.result = vault.plainText

-----------------------------------------------------------------------------
(* Properties of the stored documents *)

\* C13: the stored credential is there when a connect returns and gone when a
\* disconnect returns (each alone for its user): after the disconnect the
\* user's document holds neither the API key nor the sealed secret.
C13_CredentialDeletedOnDisconnect ==
  [][\A c \in calls :
       (Returns(c) /\ ~c.overlap)
       => /\ c.op = "connect" => HasKeys(users'[c.uid])
          /\ c.op = "disconnect"
               => /\ users'[c.uid].binanceApiKey = ""
                  /\ users'[c.uid].binanceApiSecret = Empty]_vars

-----------------------------------------------------------------------------
(* Properties of the recovery at boot *)

HasCredential(doc) == doc.binanceApiKey # "" /\ doc.binanceApiSecret # Empty

\* The venue answers the token request of the boot start c with a listenKey.
BootTokenIssued(c) ==
  /\ c \in calls /\ c.op = "boot" /\ c.pc = "token"
  /\ \E d \in calls' : d.op = "boot" /\ d.uid = c.uid /\ d.pc = "record"

\* C14: when the boot query answers, a start is launched for exactly the
\* users whose flag is true and who have a stored credential; a start whose
\* token request succeeds registers a new Session for its user; and with the
\* boot starts alone, a user has at most one socket, and a Session only if
\* the flag is true.
C14_RecoverAll ==
  [][/\ (~qSnap.done /\ qSnap'.done)
        => \A u \in Users :
             BootStarted(u)'
               <=> (users[u].binanceConnected /\ HasCredential(users[u]))
     /\ \A c \in calls :
          BootTokenIssued(c)
          => /\ streams'[c.uid] # NoStream
             /\ streams'[c.uid].ws \notin DOMAIN ws
             /\ LiveSockets(c.uid)' = {streams'[c.uid].ws}
             /\ LiveTimers(c.uid)' = {streams'[c.uid].renewIntervalId}
     /\ \A u \in Users :
          /\ Cardinality({k \in DOMAIN ws' : ws'[k].uid = u}) <= 1
          /\ streams'[u] # NoStream => users'[u].binanceConnected]_vars

\* Recovery is over: a flagged user has its Session registered and its socket
\* open, and a user without the flag has none.
C14_Recovered ==
  /\ qSnap.done /\ calls = {}
  /\ \E u \in Users :
       /\ users[u].binanceConnected /\ streams[u] # NoStream
       /\ ws[streams[u].ws].readyState = "OPEN"
  /\ \E u \in Users : ~users[u].binanceConnected /\ streams[u] = NoStream

-----------------------------------------------------------------------------
(* Properties of the whole process *)

\* All that the process holds for user u.
Side(u) ==
  <<streams[u], users[u],
    [k \in {j \in DOMAIN ws : ws[j].uid = u} |-> ws[k]],
    [k \in {j \in DOMAIN timers : timers[j].uid = u} |-> timers[k]],
    [p \in {q \in DOMAIN operations : q[1] = u} |-> operations[p]],
    {w \in writes : w.uid = u}>>

Touched == {u \in Users : Side(u)' # Side(u)}

\* The users this step is an event for: those of the activations that arrive,
\* advance or return, of the output, of the frame taken and of the write
\* applied.
Named ==
  {c.uid : c \in (calls \ calls') \cup (calls' \ calls)}
    \cup (IF out' # out THEN {out'.uid} ELSE {})
    \cup (IF delivered' # delivered THEN {delivered'[Len(delivered')].uid}
          ELSE {})
    \cup {w.uid : w \in writes \ writes'}

\* C15: a step for one user (a request, a token answer, a renewal tick, a
\* socket close or error, a frame, a write) leaves all that the process
\* holds for every other user as it is, and every write a socket's frame
\* causes is made under the user the socket was opened for.
C15_Isolation ==
  [][/\ (qSnap' = qSnap)
        => /\ Cardinality(Touched) <= 1
           /\ Named # {} => Touched \subseteq Named
     /\ \A w \in writes' :
          /\ w.uid = ws'[delivered'[w.n].k].uid
          /\ w.uid = timers'[delivered'[w.n].k].uid]_vars

\* A user has disconnected its Session while another user's Session stays
\* registered with its timer running and its operation stored.
C15_OtherSessionIntact ==
  \E a, b \in Users :
    /\ a # b
    /\ out.kind = "response" /\ out.op = "disconnect" /\ out.uid = a
    /\ out.s # NoStream
    /\ streams[b] # NoStream /\ timers[streams[b].renewIntervalId].active
    /\ \E p \in DOMAIN operations : p[1] = b

-----------------------------------------------------------------------------
(* Properties of the socket and timer callbacks *)

\* A renewal fails in this step.
RenewalFails ==
  out' # out /\ out'.kind = "log" /\ out'.line = "Error renovando listenKey"

\* C16: a failed renewal is logged only: registry, sockets, timers and
\* storage stay as they are, so the timer goes on ticking; and every tick
\* renews the listenKey of the Session's start with the API key of its start,
\* which no step changes.
C16_RenewalFailureLogged ==
  [][/\ RenewalFails
        => /\ UNCHANGED <<registry, db>>
           /\ timers'[out'.id].active
           /\ out'.listenKey = timers'[out'.id].listenKey
           /\ out'.apiKey = timers'[out'.id].apiKey
     /\ \A k \in DOMAIN timers :
          /\ timers'[k].listenKey = timers[k].listenKey
          /\ timers'[k].apiKey = timers[k].apiKey
     /\ \A k \in DOMAIN timers' \ DOMAIN timers :
          /\ timers'[k].listenKey = streams'[timers'[k].uid].listenKey
          /\ \E c \in calls : c.uid = timers'[k].uid /\ c.pc = "token"
                              /\ c.apiKey = timers'[k].apiKey]_vars

\* The renewal of an open registered Session has failed, and its timer runs.
C16_FailedTickOfOpenSession ==
  /\ out.kind = "log" /\ out.line = "Error renovando listenKey"
  /\ streams[out.uid] # NoStream /\ streams[out.uid].renewIntervalId = out.id
  /\ ws[streams[out.uid].ws].readyState = "OPEN"
  /\ timers[out.id].active

\* The registered socket of a user reports an error in this step.
RegisteredSocketErrs ==
  /\ out' # out /\ out'.kind = "log" /\ out'.line = "Error WS"
  /\ streams[out'.uid] # NoStream /\ streams[out'.uid].ws = out'.id

\* C17: once the error of a Session's socket has been handled, the Session is
\* torn down as after a close: its renewal timer is cancelled and the user's
\* registry slot is free.
C17_ErrorTearsDown ==
  [][RegisteredSocketErrs
     => /\ streams'[out'.uid] = NoStream
        /\ ~timers'[streams[out'.uid].renewIntervalId].active]_vars

-----------------------------------------------------------------------------
(* Properties of the frames that are not stored *)

\* The frame taken in this step.
Taken == delivered'[Len(delivered')]
Takes == delivered' # delivered

\* C18: a frame that does not parse causes no write and leaves storage,
\* registry, sockets and timers as they are; and an execution report taken
\* after it, on the same socket, is written as any other.
C18_MalformedDropped ==
  [][/\ (Takes /\ Taken.msg.malformed) => UNCHANGED <<db, registry>>
     /\ (Takes /\ ExecutionReport(Taken)
           /\ \E i \in DOMAIN delivered :
                delivered[i].msg.malformed /\ delivered[i].k = Taken.k)
        => \E w \in writes' \ writes :
             /\ w.n = Len(delivered') /\ w.uid = Taken.uid
             /\ w.data = operationData(Taken.msg.data, Taken.now)]_vars

\* After a frame that did not parse, the report that followed it on the same
\* open socket has been stored.
C18_ReportStoredAfterMalformed ==
  /\ Len(delivered) = 2 /\ writes = {}
  /\ delivered[1].msg.malformed /\ ExecutionReport(delivered[2])
  /\ delivered[1].k = delivered[2].k
  /\ ws[delivered[2].k].readyState = "OPEN"
  /\ <<delivered[2].uid, OrderId(delivered[2].msg.data, delivered[2].now)>>
       \in DOMAIN operations

\* C19: a frame that parses and is not an execution report has no effect:
\* storage, registry, sockets and timers stay as they are and nothing is
\* written or logged.
C19_OtherEventSkipped ==
  [][(Takes /\ ~Taken.msg.malformed /\ Taken.msg.data.e # "executionReport")
     => UNCHANGED <<db, registry, out>>]_vars

\* An account event was taken on an open socket after a report was stored.
C19_AccountEventTaken ==
  /\ Len(delivered) = 2 /\ writes = {}
  /\ ExecutionReport(delivered[1])
  /\ ~delivered[2].msg.malformed
  /\ delivered[2].msg.data.e = "outboundAccountPosition"
  /\ ws[delivered[2].k].readyState = "OPEN"
  /\ Cardinality(DOMAIN operations) = 1

-----------------------------------------------------------------------------
(* Properties of the persisted flag *)

\* The activation c leaves its position in this step.
Advances(c) ==
  /\ c \in calls
  /\ ~\E d \in calls' : d.id = c.id /\ d.op = c.op /\ d.uid = c.uid
                         /\ d.pc = c.pc

\* C20: a user's flag changes only when the credential write of a connect or
\* the flag write of a disconnect for that user takes effect; the only other
\* step that writes the user's document is the token record of a start, and
\* it writes the listenKey alone.
C20_FlagOwnedByRequests ==
  [][\A u \in Users :
       /\ users'[u].binanceConnected # users[u].binanceConnected
            => \E c \in calls :
                 /\ Advances(c) /\ c.uid = u /\ c.pc = "save"
                 /\ c.op \in {"connect", "disconnect"}
       /\ users'[u] # users[u]
            => \E c \in calls :
                 /\ Advances(c) /\ c.uid = u
                 /\ c.pc \in {"save", "record"}
                 /\ c.pc = "record"
                      => users'[u] = [users[u] EXCEPT
                                        !.lastListenKey = c.listenKey]]_vars

\* A Session of a disconnected user has recorded its token, stored a report
\* and lost its socket, and the user's flag is still false.
C20_FlagKeptBySession ==
  \E u \in Users :
    /\ ~users[u].binanceConnected /\ users[u].lastListenKey # 0
    /\ \E p \in DOMAIN operations : p[1] = u
    /\ out.kind = "log" /\ out.line = "WS cerrado" /\ out.uid = u

-----------------------------------------------------------------------------
(* Properties of overlapping and failing starts *)

\* The boot query started a Session for user u.
RecoveredAtBoot(u) ==
  qSnap.done /\ u \in DOMAIN qSnap.docs /\ HasCredential(qSnap.docs[u])

\* C21: once every connect and disconnect of a user has returned, in whatever
\* order their steps were interleaved, a Session is registered for the user
\* only if the user's flag is true.
C21_NoDanglingEntry ==
  \A u \in Users :
    (qSnap.done /\ calls = {} /\ ~RecoveredAtBoot(u) /\ streams[u] # NoStream)
    => users[u].binanceConnected

\* Socket k, which is not the one registered for its user, closes in this step.
StaleClose(k) ==
  /\ ws[k].readyState # "CLOSED" /\ ws'[k].readyState = "CLOSED"
  /\ streams[ws[k].uid] # NoStream /\ streams[ws[k].uid].ws # k

\* C22: the close of a socket that a later start has replaced leaves the
\* Session now registered for the user as it is: its registry entry, its
\* socket and its renewal timer.
C22_StaleCloseIgnored ==
  [][\A k \in DOMAIN ws :
       StaleClose(k)
       => LET s == streams[ws[k].uid] IN
          /\ streams'[ws[k].uid] = s
          /\ ws'[s.ws] = ws[s.ws]
          /\ timers'[s.renewIntervalId] = timers[s.renewIntervalId]]_vars

\* C23: a start that runs alone for its user first frees the user's registry
\* slot and cancels the timer of the Session registered there; when its token
\* request fails, the slot stays free, the step creates no socket and no
\* timer, the caller is not given an error (a connect answers 200), and no
\* activation for the user is left that could try again.
C23_FailedStart ==
  [][\A c \in calls :
       /\ (Advances(c) /\ c.op = "connect" /\ c.pc = "save")
            => /\ streams'[c.uid] = NoStream
               /\ streams[c.uid] # NoStream
                    => ~timers'[streams[c.uid].renewIntervalId].active
       /\ (Returns(c) /\ c.pc = "token" /\ ~c.overlap)
            => /\ streams[c.uid] = NoStream /\ streams'[c.uid] = NoStream
               /\ ws' = ws /\ timers' = timers
               /\ c.op = "connect"
                    => (out'.kind = "response" /\ out'.status = 200)
               /\ \A d \in calls' : d.uid # c.uid]_vars

\* A connect that replaced an earlier Session of its user has returned after
\* its token request failed.
C23_ReplacingStartFailed ==
  /\ out.kind = "response" /\ out.op = "connect" /\ out.err # ""
  /\ ~out.overlap
  /\ streams[out.uid] = NoStream
  /\ \E k \in DOMAIN timers : timers[k].uid = out.uid
  /\ LiveTimers(out.uid) = {}

====
